---- MODULE Spec2Model ----
(***************************************************************************)
(* Model of src/mcp_sourcegraph/server.py: the `search` tool of the        *)
(* Sourcegraph MCP server.                                                 *)
(*                                                                         *)
(* One tool invocation is one coroutine with a single suspension point,    *)
(* the `await client.post(...)` of SourcegraphClient.search.  The model    *)
(* has one action for the part of handle_call_tool that runs up to that    *)
(* await (HandleCallTool) and one for the part that runs from the arrival  *)
(* of the HTTP outcome to the return of the handler (HttpResponse).        *)
(*                                                                         *)
(* Data conventions.                                                       *)
(*  - A text is a sequence of strings: data is kept character by           *)
(*    character (so that len(), slicing, strip() and the `in` substring    *)
(*    test are computed as Python computes them), the literal pieces of a  *)
(*    format string are single elements.                                   *)
(*  - A value read with dict.get is an "optional": [p |-> "val", v |-> x]  *)
(*    when the key is there, [p |-> "null", ...] when the key is there     *)
(*    and holds None/null, [p |-> "absent", ...] when the key is missing.  *)
(*  - The text block returned by the handler is kept as its list of lines  *)
(*    (the argument of "\n".join).                                         *)
(***************************************************************************)
EXTENDS Integers, Sequences, FiniteSets, TLC

VARIABLES
    sourcegraph_client, \* the module global: "None" until main() sets it
    pc,                 \* "idle" | "awaiting" (suspended in client.post) | "done"
    call,               \* the invocation in progress: [name, arguments]
    posts,              \* HTTP POSTs issued by the invocation in progress
    request,            \* what the POST carried: [query, version, patternType, timeout]
    reply,              \* the HTTP outcome delivered to the invocation
    result              \* what the handler gave back: text lines, or a raised error

vars == <<sourcegraph_client, pc, call, posts, request, reply, result>>

----------------------------------------------------------------------------
(* Bounds of the model *)

\* longest query, in fragments of QueryFragments
MaxFrags == 2
\* largest explicit `count` argument
MaxCount == 3
\* longest result list built from CoreItems
MaxItems == 3
\* most line matches in a FileMatch
MaxMatches == 4
\* most repositories in timedout / cloning / missing
MaxRepos == 2

(* Constants of the program *)

DefaultCount == 10
DefaultTimeout == 10
PrimaryBudget == 120
SecondaryBudget == 80
ExtraMatches == 2
ShownMatches == 3
DescLimit == 100
MessageBudget == 80
OidLen == 8

----------------------------------------------------------------------------
(* Optionals: what dict.get sees *)

Val(x) == [p |-> "val", v |-> x]
NullOf(zero) == [p |-> "null", v |-> zero]
AbsentOf(zero) == [p |-> "absent", v |-> zero]

\* d.get(key, default): the default only when the key is missing
GetOr(field, default) == IF field.p = "absent" THEN Val(default) ELSE field

\* d.get(key): None when the key is missing
Get(field) == IF field.p = "absent" THEN [p |-> "null", v |-> field.v] ELSE field

IsNone(x) == x.p = "null"

----------------------------------------------------------------------------
(* Texts *)

Min(a, b) == IF a < b THEN a ELSE b

DigitChar == <<"0", "1", "2", "3", "4", "5", "6", "7", "8", "9">>

RECURSIVE Digits(_)
\* str(n) for n >= 0
Digits(n) ==
    IF n < 10 THEN <<DigitChar[n + 1]>>
    ELSE Digits(n \div 10) \o <<DigitChar[(n % 10) + 1]>>

\* s[:n]
Prefix(s, n) == SubSeq(s, 1, Min(n, Len(s)))

\* sub in s
Contains(s, sub) ==
    \E i \in 0..(Len(s) - Len(sub)) : SubSeq(s, i + 1, i + Len(sub)) = sub

Whitespace == {" ", "\t", "\n"}

\* s.strip()
Strip(s) ==
    LET keep == {i \in 1..Len(s) : s[i] \notin Whitespace}
    IN  IF keep = {} THEN <<>>
        ELSE LET lo == CHOOSE i \in keep : \A j \in keep : i <= j
                 hi == CHOOSE i \in keep : \A j \in keep : j <= i
             IN  SubSeq(s, lo, hi)

Ellipsis == <<".", ".", ".">>

\* if len(s) > budget: s = s[:budget - 3] + "..."
Truncate(s, budget) ==
    IF Len(s) > budget THEN Prefix(s, budget - 3) \o Ellipsis ELSE s

Unknown == <<"U", "n", "k", "n", "o", "w", "n">>

\* how an f-string shows a text that may be None
Show(x) == IF IsNone(x) THEN <<"None">> ELSE x.v

\* how an f-string shows an integer that may be None
ShowInt(x) == IF IsNone(x) THEN <<"None">> ELSE Digits(x.v)

\* " | ".join(parts)
RECURSIVE JoinBar(_)
JoinBar(parts) ==
    IF Len(parts) = 0 THEN <<>>
    ELSE IF Len(parts) = 1 THEN parts[1]
    ELSE parts[1] \o <<" | ">> \o JoinBar(Tail(parts))

\* str(e) of the exceptions the formatter can meet
AttributeErr(attr) == <<"'NoneType' object has no attribute '", attr, "'">>
SubscriptErr == <<"'NoneType' object is not subscriptable">>
CompareErr == <<"'>' not supported between instances of 'NoneType' and 'int'">>
KeyErr(key) == <<"'", key, "'">>

----------------------------------------------------------------------------
(* Query Builder: SourcegraphClient.search, up to the request *)

CountDirective == <<"c", "o", "u", "n", "t", ":">>

\* BuildQuery without the test for a directive already there
BuildQuery_AlwaysAppend(query, count) ==
    IF count # 0 /\ count > 0
    THEN query \o <<" ">> \o CountDirective \o Digits(count)
    ELSE query

\* query with the count directive appended when it holds none
BuildQuery(query, count) ==
    IF count # 0 /\ count > 0
    THEN IF ~Contains(query, CountDirective)
         THEN query \o <<" ">> \o CountDirective \o Digits(count)
         ELSE query
    ELSE query

\* pattern_type_map.get(pattern_type, "standard")
PatternTypeMap(pattern_type) ==
    IF pattern_type = "keyword" THEN "standard"
    ELSE IF pattern_type = "regexp" THEN "regexp"
    ELSE "standard"

\* the variables of the payload, and the timeout the HTTP client is opened with
BuildRequest(query, pattern_type, count, timeout) ==
    [query |-> BuildQuery(query, count),
     version |-> "V3",
     patternType |-> PatternTypeMap(pattern_type),
     timeout |-> timeout]

NoRequest == [query |-> <<>>, version |-> "", patternType |-> "", timeout |-> 0]

----------------------------------------------------------------------------
(* Shapes of the backend's answer *)

NoFile == [path |-> AbsentOf(<<>>)]
NoRepo == [name |-> AbsentOf(<<>>)]
NoPerson == [name |-> AbsentOf(<<>>)]
NoAuthor == [person |-> AbsentOf(NoPerson)]
NoCommit == [oid |-> AbsentOf(<<>>), message |-> AbsentOf(<<>>), author |-> AbsentOf(NoAuthor)]
NoMatch == [lineNumber |-> AbsentOf(0), preview |-> AbsentOf(<<>>)]

\* a result item holding no key at all: {}
NoItem ==
    [typename |-> AbsentOf(""),
     file |-> AbsentOf(NoFile),
     repository |-> AbsentOf(NoRepo),
     lineMatches |-> AbsentOf(<<>>),
     name |-> AbsentOf(<<>>),
     description |-> AbsentOf(<<>>),
     commit |-> AbsentOf(NoCommit)]

NoAlert == [title |-> AbsentOf(<<>>)]
NoStats == [approximateResultCount |-> AbsentOf(0)]

NoSearchResults ==
    [results |-> AbsentOf(<<>>),
     alert |-> AbsentOf(NoAlert),
     timedout |-> AbsentOf(<<>>),
     cloning |-> AbsentOf(<<>>),
     missing |-> AbsentOf(<<>>)]

\* data.search holding no key at all
NoResultSet == [results |-> AbsentOf(NoSearchResults), stats |-> AbsentOf(NoStats)]

NoData == [search |-> AbsentOf(NoResultSet)]

\* nothing delivered yet
NoReply ==
    [exc |-> "", detail |-> <<>>, status |-> 0, json |-> FALSE,
     errors |-> AbsentOf(<<>>), data |-> AbsentOf(NoData)]

----------------------------------------------------------------------------
(* Search Transport: SourcegraphClient.search, from the POST on *)

Return(value) == [ok |-> TRUE, value |-> value, error |-> <<>>]
Raise(error) == [ok |-> FALSE, value |-> NullOf(NoResultSet), error |-> error]

\* response.raise_for_status() passes
IsSuccess(status) == status >= 200 /\ status <= 299

\* what `search` returns or raises once client.post has ended with `rep`
SearchOutcome(rep, timeout) ==
    IF rep.exc = "TimeoutException"
    THEN Raise(<<"Search timeout after ">> \o Digits(timeout) \o <<" seconds">>)
    ELSE IF rep.exc = "HTTPError"
    THEN Raise(<<"HTTP error: ">> \o rep.detail)
    ELSE IF rep.exc = "Exception"
    THEN Raise(<<"Search failed: ">> \o rep.detail)
    ELSE IF ~IsSuccess(rep.status)
    THEN Raise(<<"HTTP error: ">> \o rep.detail)
    ELSE IF ~rep.json
    THEN Raise(<<"Search failed: ">> \o rep.detail)
    ELSE IF rep.errors.p # "absent"
    THEN Raise(<<"Search failed: ", "GraphQL errors: ">> \o Show(rep.errors))
    ELSE IF rep.data.p = "absent"
    THEN Raise(<<"Search failed: ">> \o KeyErr("data"))
    ELSE IF rep.data.p = "null"
    THEN Raise(<<"Search failed: ">> \o SubscriptErr)
    ELSE IF rep.data.v.search.p = "absent"
    THEN Raise(<<"Search failed: ">> \o KeyErr("search"))
    ELSE Return(rep.data.v.search)

----------------------------------------------------------------------------
(* Result Formatter: handle_call_tool, from the result of `search` on *)

Block(lines) == [ok |-> TRUE, lines |-> lines, error |-> <<>>]
Fails(error) == [ok |-> FALSE, lines |-> <<>>, error |-> error]

\* "   Line <n>: <preview>" of one line match, its preview cut to `budget`
MatchLine(match, budget) ==
    <<"   Line ">> \o ShowInt(GetOr(match.lineNumber, 0)) \o <<": ">>
        \o Truncate(Strip(GetOr(match.preview, <<>>).v), budget)

\* ShownLineMatches with up to three more after the first
ShownLineMatches_OneMore(line_matches) ==
    IF Len(line_matches) > 1
    THEN SubSeq(line_matches, 1, 1 + Min(ExtraMatches + 1, Len(line_matches) - 1))
    ELSE line_matches

\* the line matches that get a preview line: the first, then up to two more
ShownLineMatches(line_matches) ==
    IF Len(line_matches) > 1
    THEN SubSeq(line_matches, 1, 1 + Min(ExtraMatches, Len(line_matches) - 1))
    ELSE line_matches

\* the preview lines and the counter line of a non-empty list of line matches
LineMatchLines(line_matches) ==
    LET shown == ShownLineMatches(line_matches)
    IN  [k \in 1..Len(shown) |->
            MatchLine(shown[k], IF k = 1 THEN PrimaryBudget ELSE SecondaryBudget)]
        \o (IF Len(line_matches) > 1 /\ Len(line_matches) > ShownMatches
            THEN << <<"   ... +">> \o Digits(Len(line_matches) - ShownMatches)
                        \o <<" more matches">> >>
            ELSE <<>>)

\* the branch result_type == "FileMatch"
FormatFileMatch(i, item) ==
    LET file_info == GetOr(item.file, NoFile)
        repo_info == GetOr(item.repository, NoRepo)
        line_matches == GetOr(item.lineMatches, <<>>)
    IN  IF IsNone(file_info) \/ IsNone(repo_info) THEN Fails(AttributeErr("get"))
        ELSE
        LET file_path == GetOr(file_info.v.path, Unknown)
            repo_name == GetOr(repo_info.v.name, Unknown)
            head == << Digits(i) \o <<". ">> \o Show(file_path),
                       <<"   Repository: ">> \o Show(repo_name) >>
        IN  IF IsNone(line_matches) \/ Len(line_matches.v) = 0 THEN Block(head)
            ELSE IF \E k \in 1..Len(ShownLineMatches(line_matches.v)) :
                        IsNone(GetOr(line_matches.v[k].preview, <<>>))
            THEN Fails(AttributeErr("strip"))
            ELSE Block(head \o LineMatchLines(line_matches.v))

\* FormatRepository with `<=` in place of `<`
FormatRepository_AtMost(i, item) ==
    LET repo_name == GetOr(item.name, Unknown)
        description == GetOr(item.description, <<>>)
    IN  Block(<< Digits(i) \o <<". Repository: ">> \o Show(repo_name) >>
              \o (IF ~IsNone(description) /\ Len(description.v) > 0
                     /\ Len(description.v) <= DescLimit
                  THEN << <<"   ">> \o description.v >>
                  ELSE <<>>))

\* the branch result_type == "Repository"
FormatRepository(i, item) ==
    LET repo_name == GetOr(item.name, Unknown)
        description == GetOr(item.description, <<>>)
    IN  Block(<< Digits(i) \o <<". Repository: ">> \o Show(repo_name) >>
              \o (IF ~IsNone(description) /\ Len(description.v) > 0
                     /\ Len(description.v) < DescLimit
                  THEN << <<"   ">> \o description.v >>
                  ELSE <<>>))

\* the branch result_type == "CommitSearchResult"
FormatCommit(i, item) ==
    LET commit == GetOr(item.commit, NoCommit)
    IN  IF IsNone(commit) THEN Fails(AttributeErr("get"))
        ELSE
        LET author_info == GetOr(commit.v.author, NoAuthor)
        IN  IF IsNone(author_info) THEN Fails(AttributeErr("get"))
            ELSE
            LET author == GetOr(author_info.v.person, NoPerson)
                message == GetOr(commit.v.message, <<>>)
                oid == GetOr(commit.v.oid, Unknown)
            IN  IF IsNone(message) THEN Fails(AttributeErr("strip"))
                ELSE IF IsNone(oid) THEN Fails(SubscriptErr)
                ELSE IF IsNone(author) THEN Fails(AttributeErr("get"))
                ELSE Block(<< Digits(i) \o <<". Commit: ">> \o Prefix(oid.v, OidLen),
                              <<"   ">> \o Truncate(Strip(message.v), MessageBudget),
                              <<"   Author: ">> \o Show(GetOr(author.v.name, Unknown)) >>)

\* one pass of the loop body: the lines of item i, then the separator
FormatItem(i, item) ==
    LET result_type == GetOr(item.typename, "Unknown")
        body == IF IsNone(result_type) THEN Block(<<>>)
                ELSE IF result_type.v = "FileMatch" THEN FormatFileMatch(i, item)
                ELSE IF result_type.v = "Repository" THEN FormatRepository(i, item)
                ELSE IF result_type.v = "CommitSearchResult" THEN FormatCommit(i, item)
                ELSE Block(<<>>)
    IN  IF body.ok THEN Block(body.lines \o << <<>> >>) ELSE body

\* ShownItems without the slice
ShownItems_NoLimit(result_items, count) == result_items

\* result_items[:int(count)]
ShownItems(result_items, count) == Prefix(result_items, count)

RECURSIVE ConcatBlocks(_, _)
\* the lines of the passes from..Len(items) of the loop, in order
ConcatBlocks(items, from) ==
    IF from > Len(items) THEN <<>>
    ELSE FormatItem(from, items[from]).lines \o ConcatBlocks(items, from + 1)

\* the loop over the shown items: all their lines, or the first failure
FormatItems(items) ==
    LET bad == {k \in 1..Len(items) : ~FormatItem(k, items[k]).ok}
    IN  IF bad # {}
        THEN FormatItem(CHOOSE k \in bad : \A j \in bad : k <= j,
                        items[CHOOSE k \in bad : \A j \in bad : k <= j])
        ELSE Block(ConcatBlocks(items, 1))

\* the header line and the blank line after it
Header(returned, approx_count) ==
    << (IF approx_count > returned
        THEN <<"Top ">> \o Digits(returned) \o <<" of ~">> \o Digits(approx_count)
                 \o <<" results:">>
        ELSE <<"Found ">> \o Digits(returned) \o <<" results:">>),
       <<>> >>

\* a truthy list: neither missing, nor None, nor empty
Truthy(list) == ~IsNone(Get(list)) /\ Len(list.v) > 0

\* StatusInfo with the cloning fragment appended before the timed-out one
StatusInfo_CloningFirst(search_results) ==
    LET alert == Get(search_results.alert)
    IN  (IF ~IsNone(alert) /\ ~IsNone(Get(alert.v.title)) /\ Len(alert.v.title.v) > 0
         THEN << <<"Alert: ">> \o alert.v.title.v >> ELSE <<>>)
        \o (IF Truthy(search_results.cloning)
            THEN << Digits(Len(search_results.cloning.v)) \o <<" repos cloning">> >>
            ELSE <<>>)
        \o (IF Truthy(search_results.timedout)
            THEN << Digits(Len(search_results.timedout.v)) \o <<" repos timed out">> >>
            ELSE <<>>)
        \o (IF Truthy(search_results.missing)
            THEN << Digits(Len(search_results.missing.v)) \o <<" repos missing">> >>
            ELSE <<>>)

\* status_info, in the order the fragments are appended
StatusInfo(search_results) ==
    LET alert == Get(search_results.alert)
    IN  (IF ~IsNone(alert) /\ ~IsNone(Get(alert.v.title)) /\ Len(alert.v.title.v) > 0
         THEN << <<"Alert: ">> \o alert.v.title.v >> ELSE <<>>)
        \o (IF Truthy(search_results.timedout)
            THEN << Digits(Len(search_results.timedout.v)) \o <<" repos timed out">> >>
            ELSE <<>>)
        \o (IF Truthy(search_results.cloning)
            THEN << Digits(Len(search_results.cloning.v)) \o <<" repos cloning">> >>
            ELSE <<>>)
        \o (IF Truthy(search_results.missing)
            THEN << Digits(Len(search_results.missing.v)) \o <<" repos missing">> >>
            ELSE <<>>)

\* the status line, if any fragment exists
StatusLines(search_results) ==
    IF Len(StatusInfo(search_results)) > 0
    THEN << <<"Status: ">> \o JoinBar(StatusInfo(search_results)) >>
    ELSE <<>>

\* output_lines for what `search` returned, or the exception met on the way
FormatResults(results, count) ==
    IF IsNone(results) THEN Fails(AttributeErr("get"))
    ELSE
    LET search_results == GetOr(results.v.results, NoSearchResults)
        stats == GetOr(results.v.stats, NoStats)
    IN  IF IsNone(search_results) THEN Fails(AttributeErr("get"))
        ELSE
        LET result_items == GetOr(search_results.v.results, <<>>)
        IN  IF IsNone(result_items) \/ Len(result_items.v) = 0
            THEN Block(<< <<"No results found.">> >> \o StatusLines(search_results.v))
            ELSE IF IsNone(stats) THEN Fails(AttributeErr("get"))
            ELSE
            LET approx_count ==
                    GetOr(stats.v.approximateResultCount, Len(result_items.v))
                items == FormatItems(ShownItems(result_items.v, count))
            IN  IF IsNone(approx_count) THEN Fails(CompareErr)
                ELSE IF ~items.ok THEN items
                ELSE Block(Header(Len(result_items.v), approx_count.v)
                           \o items.lines \o StatusLines(search_results.v))

----------------------------------------------------------------------------
(* Tool Adapter: handle_call_tool *)

NoResult == [kind |-> "none", exc |-> "", lines |-> <<>>]
\* return [TextContent(type="text", text="\n".join(lines))]
TextResult(lines) == [kind |-> "text", exc |-> "", lines |-> lines]
\* raise exc(message)
Raised(exc, message) == [kind |-> "raise", exc |-> exc, lines |-> <<message>>]

NoArguments ==
    [query |-> AbsentOf(<<>>), pattern_type |-> AbsentOf(""),
     count |-> AbsentOf(0), timeout |-> AbsentOf(0)]

NoCall == [name |-> "", arguments |-> NoArguments]

\* QueryMissing with the test `query is None` in place of `not query`
QueryMissing_NoneOnly(arguments) == IsNone(GetOr(arguments.query, <<>>))

\* not arguments.get("query", "")
QueryMissing(arguments) ==
    LET query == GetOr(arguments.query, <<>>)
    IN  IsNone(query) \/ Len(query.v) = 0

\* arguments.get("count", 10)
CountOf(arguments) == GetOr(arguments.count, DefaultCount).v

\* arguments.get("timeout", 10)
TimeoutOf(arguments) == GetOr(arguments.timeout, DefaultTimeout).v

\* arguments.get("pattern_type", "keyword")
PatternTypeOf(arguments) == GetOr(arguments.pattern_type, "keyword").v

\* AdapterResult without the except clause: an exception leaves the handler
AdapterResult_NoExcept(outcome, count) ==
    IF ~outcome.ok THEN Raised("Exception", outcome.error)
    ELSE LET report == FormatResults(outcome.value, count)
         IN  IF report.ok THEN TextResult(report.lines)
             ELSE Raised("Exception", report.error)

\* the try block around `search` and the formatting, and its except clause
AdapterResult(outcome, count) ==
    IF ~outcome.ok
    THEN TextResult(<< <<"Search failed: ">> \o outcome.error >>)
    ELSE LET report == FormatResults(outcome.value, count)
         IN  IF report.ok THEN TextResult(report.lines)
             ELSE TextResult(<< <<"Search failed: ">> \o report.error >>)

\* main(): the global client is set once, before the server takes calls
Main ==
    /\ sourcegraph_client = "None"
    /\ pc = "idle"
    /\ sourcegraph_client' = "client"
    /\ UNCHANGED <<pc, call, posts, request, reply, result>>

\* handle_call_tool from its entry to `await client.post(...)`, or to the raise
\* that ends it before
HandleCallTool(name, arguments) ==
    /\ pc = "idle"
    /\ call' = [name |-> name, arguments |-> arguments]
    /\ UNCHANGED <<sourcegraph_client, reply>>
    /\ IF name # "search"
       THEN /\ result' = Raised("ValueError", <<"Unknown tool: ", name>>)
            /\ pc' = "done" /\ posts' = 0 /\ request' = NoRequest
       ELSE IF sourcegraph_client = "None"
       THEN /\ result' = Raised("ValueError", <<"Sourcegraph client not initialized.">>)
            /\ pc' = "done" /\ posts' = 0 /\ request' = NoRequest
       ELSE IF QueryMissing(arguments)
       THEN /\ result' = Raised("ValueError", <<"Query parameter is required">>)
            /\ pc' = "done" /\ posts' = 0 /\ request' = NoRequest
       ELSE /\ request' = BuildRequest(arguments.query.v, PatternTypeOf(arguments),
                                       CountOf(arguments), TimeoutOf(arguments))
            /\ posts' = 1
            /\ result' = NoResult
            /\ pc' = "awaiting"

\* HttpResponse with a failed request sent again
HttpResponse_Retry(rep) ==
    /\ pc = "awaiting"
    /\ reply' = rep
    /\ IF ~SearchOutcome(rep, request.timeout).ok /\ posts < 3
       THEN /\ posts' = posts + 1
            /\ UNCHANGED <<pc, result>>
       ELSE /\ result' = AdapterResult(SearchOutcome(rep, request.timeout),
                                       CountOf(call.arguments))
            /\ pc' = "done"
            /\ UNCHANGED posts
    /\ UNCHANGED <<sourcegraph_client, call, request>>

\* handle_call_tool from the end of `await client.post(...)` to its return
HttpResponse(rep) ==
    /\ pc = "awaiting"
    /\ reply' = rep
    /\ result' = AdapterResult(SearchOutcome(rep, request.timeout), CountOf(call.arguments))
    /\ pc' = "done"
    /\ UNCHANGED <<sourcegraph_client, call, posts, request>>

\* the server's dispatcher hands the handler's result (or error) to the protocol
\* layer and is ready for the next call; nothing of the invocation is kept
Deliver ==
    /\ pc = "done"
    /\ pc' = "idle"
    /\ call' = NoCall
    /\ posts' = 0
    /\ request' = NoRequest
    /\ reply' = NoReply
    /\ result' = NoResult
    /\ UNCHANGED sourcegraph_client

Init ==
    /\ sourcegraph_client = "None"
    /\ pc = "idle"
    /\ call = NoCall
    /\ posts = 0
    /\ request = NoRequest
    /\ reply = NoReply
    /\ result = NoResult

----------------------------------------------------------------------------
(* Inputs: the values the actions draw their arguments from *)

\* n copies of character c
Rep(c, n) == [k \in 1..n |-> c]

Opts(values, zero) == {AbsentOf(zero), NullOf(zero)} \cup {Val(x) : x \in values}

ExampleQuery ==
    <<"r", "e", "p", "o", ":", "f", "a", "c", "e", "b", "o", "o", "k", "/",
      "r", "e", "a", "c", "t", " ", "u", "s", "e", "S", "t", "a", "t", "e">>

Arguments(query, pattern_type, count, timeout) ==
    [query |-> query, pattern_type |-> pattern_type, count |-> count, timeout |-> timeout]

\* an argument the schema declares: given or left out
Given(values, zero) == {AbsentOf(zero)} \cup {Val(x) : x \in values}

ResultSetOf(result_items, alert, timedout, cloning, missing, approx) ==
    [results |-> Val([results |-> result_items, alert |-> alert, timedout |-> timedout,
                      cloning |-> cloning, missing |-> missing]),
     stats |-> Val([approximateResultCount |-> approx])]

\* a result set with nothing but its items
PlainResultSet(items) ==
    ResultSetOf(Val(items), NullOf(NoAlert), Val(<<>>), Val(<<>>), Val(<<>>),
                AbsentOf(0))

Typed(typename) == [NoItem EXCEPT !.typename = Val(typename)]

RepositoryItem(name, description) ==
    [Typed("Repository") EXCEPT !.name = name, !.description = description]

FileMatchItem(file, repository, lineMatches) ==
    [Typed("FileMatch") EXCEPT !.file = file, !.repository = repository,
                               !.lineMatches = lineMatches]

CommitItem(commit) == [Typed("CommitSearchResult") EXCEPT !.commit = commit]

\* client.post raised
ExcReply(exc, detail) == [NoReply EXCEPT !.exc = exc, !.detail = <<detail>>]
\* a response with a status outside 2xx
StatusReply(status, detail) == [NoReply EXCEPT !.status = status, !.detail = <<detail>>]
\* a 2xx response with this JSON envelope
JsonReply(errors, data) ==
    [NoReply EXCEPT !.status = 200, !.json = TRUE, !.errors = errors, !.data = data]
\* a 2xx response with this value of data.search
SearchReply(search) == JsonReply(AbsentOf(<<>>), Val([search |-> search]))

RepoA == RepositoryItem(Val(<<"r", "1">>), Val(<<"d">>))
NullFileItem == FileMatchItem(NullOf(NoFile), Val([name |-> Val(<<"r">>)]), Val(<<>>))

ToolNames == {"search", "fetch"}

ProtoArguments ==
    {Arguments(q, pt, c, t) :
        q \in Opts({<<>>, <<"a">>, CountDirective \o <<"7">>}, <<>>),
        pt \in Given({"keyword", "regexp", "literal"}, ""),
        c \in Given({1, MaxCount}, 0),
        t \in Given({5}, 0)}

ProtoReplies ==
    {ExcReply("TimeoutException", "ReadTimeout"),
     ExcReply("HTTPError", "ConnectError"),
     ExcReply("Exception", "RuntimeError"),
     StatusReply(404, "Client error '404 Not Found'"),
     StatusReply(500, "Server error '500 Internal Server Error'"),
     [NoReply EXCEPT !.status = 200, !.detail = <<"Expecting value">>],
     JsonReply(Val(<<"[{'message': 'invalid syntax'}]">>), NullOf(NoData)),
     JsonReply(Val(<<"[{'message': 'partial'}]">>),
               Val([search |-> Val(PlainResultSet(<<RepoA>>))])),
     JsonReply(NullOf(<<>>), Val([search |-> Val(PlainResultSet(<<>>))])),
     JsonReply(AbsentOf(<<>>), AbsentOf(NoData)),
     JsonReply(AbsentOf(<<>>), NullOf(NoData)),
     SearchReply(AbsentOf(NoResultSet)),
     SearchReply(NullOf(NoResultSet)),
     SearchReply(Val(NoResultSet)),
     SearchReply(Val(PlainResultSet(<<>>))),
     SearchReply(Val(PlainResultSet(<<RepoA>>))),
     SearchReply(Val(PlainResultSet(<<RepoA, NullFileItem>>)))}

----------------------------------------------------------------------------
(* The tool, its calls and the backend's answers *)

Next ==
    \/ Main
    \/ \E name \in ToolNames, arguments \in ProtoArguments :
           HandleCallTool(name, arguments)
    \/ \E rep \in ProtoReplies : HttpResponse(rep)
    \/ Deliver

Spec == Init /\ [][Next]_vars

\* The HTTP client is opened with a timeout, so client.post always ends: with a
\* response, a timeout or another exception.
FairSpec ==
    Spec /\ WF_vars(\E rep \in ProtoReplies : HttpResponse(rep)) /\ WF_vars(Deliver)

----------------------------------------------------------------------------
(* Claims about the adapter and the transport *)

\* the invocation in progress is a `search` whose query is missing or ""
EmptyQueryCall ==
    /\ call.name = "search"
    /\ \/ call.arguments.query.p = "absent"
       \/ call.arguments.query.p = "val" /\ call.arguments.query.v = <<>>

\* C1: a `search` invocation whose query is missing or the empty string ends by
\* raising a ValueError ("Query parameter is required" once the client is set),
\* and issues no HTTP request, whatever its other arguments are.
C1_EmptyQueryRejected ==
    EmptyQueryCall =>
        /\ pc = "done"
        /\ result.kind = "raise"
        /\ result.exc = "ValueError"
        /\ sourcegraph_client = "client" =>
               result.lines = << <<"Query parameter is required">> >>
        /\ posts = 0
        /\ request = NoRequest

C1_Witness ==
    /\ EmptyQueryCall
    /\ sourcegraph_client = "client"
    /\ call.arguments.query.p = "val"
    /\ call.arguments.count.p = "val"
    /\ call.arguments.pattern_type.p = "val"
    /\ result.kind = "raise"

\* the cause text of a failed request, as the transport words it
CauseText(rep) ==
    IF rep.exc = "TimeoutException"
    THEN <<"Search timeout after ">>
             \o Digits(IF call.arguments.timeout.p = "val"
                       THEN call.arguments.timeout.v ELSE 10)
             \o <<" seconds">>
    ELSE IF rep.exc = "HTTPError" \/ (rep.exc = "" /\ rep.status \notin 200..299)
    THEN <<"HTTP error: ">> \o rep.detail
    ELSE IF rep.exc = "" /\ rep.json /\ rep.errors.p = "val"
    THEN <<"GraphQL errors: ">> \o rep.errors.v
    ELSE rep.detail

\* the transport failed: an exception, a status outside 2xx, a body that is no
\* JSON, or an envelope with errors
TransportFailed(rep) ==
    \/ rep.exc # ""
    \/ rep.status \notin 200..299
    \/ ~rep.json
    \/ rep.errors.p = "val"

\* C2: once the HTTP outcome of a `search` invocation is there, the invocation
\* ends with a text result, never with a raise; when the transport failed, the
\* text is the one line "Search failed: <reason>" and the reason holds the
\* transport's cause text.
C2_TransportFailureIsText ==
    (pc = "done" /\ reply # NoReply) =>
        /\ result.kind = "text"
        /\ TransportFailed(reply) =>
               /\ Len(result.lines) = 1
               /\ Head(result.lines[1]) = "Search failed: "
               /\ Contains(Tail(result.lines[1]), CauseText(reply))

C2_Witness ==
    /\ pc = "done"
    /\ reply.errors.p = "val"
    /\ result.kind = "text"
    /\ Contains(result.lines[1], <<"GraphQL errors: ", "[{'message': 'invalid syntax'}]">>)

\* C3: an invocation issues at most one HTTP POST; the step that takes the HTTP
\* outcome, whatever the outcome, ends the invocation without another POST; and
\* an invocation that waits for its HTTP outcome reaches its final result.
C3_SingleRequest ==
    /\ [](posts <= 1 /\ (pc = "done" => result # NoResult))
    /\ [][pc = "awaiting" => (pc' = "done" /\ posts' = posts)]_vars
    /\ (pc = "awaiting") ~> (pc = "done")

C3_Witness ==
    /\ pc = "done"
    /\ posts = 1
    /\ TransportFailed(reply)
    /\ result.kind = "text"

----------------------------------------------------------------------------
(* The Query Builder over many queries *)

QueryFragments ==
    {<<"a">>, <<" ">>, <<"5">>, <<":">>, <<"c", "o", "u", "n", "t">>, CountDirective}

RECURSIVE QueryTexts(_)
\* the texts of at most n fragments
QueryTexts(n) ==
    IF n = 0 THEN {<<>>}
    ELSE LET shorter == QueryTexts(n - 1)
         IN  shorter \cup {t \o f : t \in shorter, f \in QueryFragments}

BuildArguments ==
    {Arguments(Val(q), pt, c, AbsentOf(0)) :
        q \in QueryTexts(MaxFrags) \cup {ExampleQuery},
        pt \in Given({"keyword", "regexp", "literal"}, ""),
        c \in Given((0..MaxCount) \cup {5, 1000}, 0)}

NextBuild ==
    \/ Main
    \/ \E arguments \in BuildArguments : HandleCallTool("search", arguments)
    \/ HttpResponse(SearchReply(Val(PlainResultSet(<<>>))))
    \/ Deliver

SpecBuild == Init /\ [][NextBuild]_vars

\* how many times sub occurs in s
Occurrences(s, sub) ==
    Cardinality({i \in 0..(Len(s) - Len(sub)) : SubSeq(s, i + 1, i + Len(sub)) = sub})

\* the count the invocation in progress asks for
RequestedCount ==
    IF call.arguments.count.p = "val" THEN call.arguments.count.v ELSE 10

\* C5: for a non-empty query and a count > 0, the query sent is the query given
\* followed by " count:<N>" when the query given holds no "count:", and the
\* query given itself when it holds one; a query built without a directive holds
\* exactly one, and building the sent query again changes nothing.
C5_CountDirective ==
    (pc = "awaiting" /\ RequestedCount > 0) =>
        LET given == call.arguments.query.v
            directive == <<" ", "c", "o", "u", "n", "t", ":">> \o Digits(RequestedCount)
        IN  /\ Len(given) > 0
            /\ IF Contains(given, <<"c", "o", "u", "n", "t", ":">>)
               THEN request.query = given
               ELSE /\ request.query = given \o directive
                    /\ Occurrences(request.query, <<"c", "o", "u", "n", "t", ":">>) = 1
            /\ BuildQuery(request.query, RequestedCount) = request.query

C5_Witness ==
    /\ pc = "awaiting"
    /\ call.arguments.query.v = ExampleQuery
    /\ call.arguments.count = Val(5)
    /\ request.query = ExampleQuery \o <<" ", "c", "o", "u", "n", "t", ":", "5">>

----------------------------------------------------------------------------
(* The Result Formatter over many result sets *)

\* line match k of a file: its preview is short and padded, long (over every
\* budget) or exactly as long as the primary budget
LineMatch(k, kind) ==
    [lineNumber |-> Val(10 * k),
     preview |-> Val(IF kind = "short" THEN <<" ", "m">> \o Digits(k) \o <<" ">>
                     ELSE IF kind = "long" THEN Digits(k) \o Rep("x", PrimaryBudget)
                     ELSE Digits(k) \o Rep("x", PrimaryBudget - 1))]

LineMatches(n, kind) == [k \in 1..n |-> LineMatch(k, kind)]

FileA == Val([path |-> Val(<<"f", ".", "p", "y">>)])
RepoOfFile == Val([name |-> Val(<<"o", "/", "r">>)])

FileMatchItems ==
    {FileMatchItem(FileA, RepoOfFile, Val(LineMatches(n, kind))) :
        n \in 0..MaxMatches, kind \in {"short", "long", "edge"}}
    \cup {FileMatchItem(file, RepoOfFile, Val(LineMatches(1, "short"))) :
            file \in {AbsentOf(NoFile), NullOf(NoFile), Val(NoFile),
                      Val([path |-> NullOf(<<>>)])}}
    \cup {FileMatchItem(FileA, repository, Val(LineMatches(1, "short"))) :
            repository \in {AbsentOf(NoRepo), NullOf(NoRepo), Val(NoRepo),
                            Val([name |-> NullOf(<<>>)])}}
    \cup {FileMatchItem(FileA, RepoOfFile, lineMatches) :
            lineMatches \in {AbsentOf(<<>>), NullOf(<<>>)}}
    \cup {FileMatchItem(FileA, RepoOfFile,
                        Val([LineMatches(n, "short") EXCEPT ![k] = match])) :
            n \in {2, MaxMatches}, k \in {2, MaxMatches},
            match \in {NoMatch,
                       [lineNumber |-> NullOf(0), preview |-> Val(<<"p">>)],
                       [lineNumber |-> Val(7), preview |-> NullOf(<<>>)]}}

RepositoryItems ==
    {RepositoryItem(name, Val(<<"d">>)) :
        name \in Opts({<<"r", "1">>}, <<>>)}
    \cup {RepositoryItem(Val(<<"r", "2">>), description) :
            description \in Opts({Rep("d", n) :
                                    n \in {0, 1, DescLimit - 1, DescLimit, DescLimit + 1}},
                                 <<>>)}

PersonA == Val([name |-> Val(<<"A", "n", "n">>)])
AuthorA == Val([person |-> PersonA])

CommitOf(oid, message, author) ==
    CommitItem(Val([oid |-> oid, message |-> message, author |-> author]))

OidA == Val(<<"0", "1", "2", "3", "4", "5", "6", "7", "8", "9", "a", "b">>)
MessageA == Val(<<"f", "i", "x">>)

CommitItems ==
    {CommitItem(commit) : commit \in {AbsentOf(NoCommit), NullOf(NoCommit), Val(NoCommit)}}
    \cup {CommitOf(oid, MessageA, AuthorA) :
            oid \in Opts({<<"a", "b", "c">>, OidA.v}, <<>>)}
    \cup {CommitOf(OidA, message, AuthorA) :
            message \in Opts({<<" ", "f", "i", "x", "\n">>, Rep("m", MessageBudget),
                              Rep("m", MessageBudget + 1)}, <<>>)}
    \cup {CommitOf(OidA, MessageA, author) :
            author \in {AbsentOf(NoAuthor), NullOf(NoAuthor), Val(NoAuthor),
                        Val([person |-> NullOf(NoPerson)]),
                        Val([person |-> Val(NoPerson)]),
                        Val([person |-> Val([name |-> NullOf(<<>>)])])}}

\* items whose variant tag is none of the three, is missing, or is null
UntypedItems ==
    {Typed("Symbol"), NoItem, [NoItem EXCEPT !.typename = NullOf("")],
     [RepoA EXCEPT !.typename = Val("repository")]}

Items == FileMatchItems \cup RepositoryItems \cup CommitItems \cup UntypedItems

CoreItems ==
    {FileMatchItem(FileA, RepoOfFile, Val(LineMatches(1, "short"))),
     RepoA,
     CommitOf(OidA, MessageA, AuthorA),
     Typed("Symbol"),
     NullFileItem}

RECURSIVE ListsOver(_, _)
\* the lists of at most n members of `items`
ListsOver(items, n) ==
    IF n = 0 THEN {<<>>}
    ELSE LET shorter == ListsOver(items, n - 1)
         IN  shorter \cup {l \o <<it>> : l \in shorter, it \in items}

ItemLists ==
    ListsOver(CoreItems, MaxItems)
    \cup {<<it>> : it \in Items}
    \cup {<<Typed("Symbol"), it>> : it \in Items}
    \cup {<<it, RepoA>> : it \in Items}

\* n repositories, as the backend names them in timedout, cloning and missing
Repos(n) == [k \in 1..n |-> [name |-> <<"r">> \o Digits(k)]]

Alerts ==
    {AbsentOf(NoAlert), NullOf(NoAlert), Val(NoAlert),
     Val([title |-> NullOf(<<>>)]), Val([title |-> Val(<<>>)]),
     Val([title |-> Val(<<"Too many files">>)])}

FormatResultSets ==
    {ResultSetOf(Val(items), NullOf(NoAlert), Val(<<>>), Val(<<>>), Val(<<>>), approx) :
        items \in ItemLists, approx \in {AbsentOf(0), Val(MaxItems + 1)}}
    \cup
    {ResultSetOf(items, alert, timedout, Val(Repos(c)), Val(Repos(m)), Val(1)) :
        items \in {AbsentOf(<<>>), NullOf(<<>>), Val(<<>>), Val(<<RepoA>>),
                   Val(<<RepoA, Typed("Symbol")>>)},
        alert \in Alerts,
        timedout \in {AbsentOf(<<>>), NullOf(<<>>)} \cup {Val(Repos(t)) : t \in 0..MaxRepos},
        c \in 0..MaxRepos,
        m \in 0..MaxRepos}

FormatArguments ==
    {Arguments(Val(<<"a">>), AbsentOf(""), c, AbsentOf(0)) : c \in Given(1..MaxCount, 0)}

NextFormat ==
    \/ Main
    \/ \E arguments \in FormatArguments : HandleCallTool("search", arguments)
    \/ \E rs \in FormatResultSets : HttpResponse(SearchReply(Val(rs)))
    \/ Deliver

SpecFormat == Init /\ [][NextFormat]_vars

----------------------------------------------------------------------------
(* Reading a report back *)

\* the backend answered with a result set
GotResultSet ==
    /\ reply.exc = "" /\ reply.status = 200 /\ reply.json
    /\ reply.errors.p = "absent"
    /\ reply.data.p = "val"
    /\ reply.data.v.search.p = "val"

\* the search_results object of the answer, and its result items ([] when the
\* list is missing or null)
BackendResults == reply.data.v.search.v.results.v
BackendItems == BackendResults.results.v

\* the invocation ended with a report, not with a "Search failed" text
IsReport ==
    /\ pc = "done"
    /\ GotResultSet
    /\ result.kind = "text"
    /\ Len(result.lines) > 0
    /\ result.lines[1] # <<>>
    /\ Head(result.lines[1]) # "Search failed: "

DigitSet == {DigitChar[d] : d \in 1..10}

\* a numbered item line: it starts with a digit
IsNumbered(line) == Len(line) > 0 /\ line[1] \in DigitSet

RECURSIVE ParseLabel(_, _, _)
\* the number a line starts with
ParseLabel(line, k, acc) ==
    IF k <= Len(line) /\ line[k] \in DigitSet
    THEN ParseLabel(line, k + 1,
                    acc * 10 + (CHOOSE d \in 0..9 : DigitChar[d + 1] = line[k]))
    ELSE acc

LabelOf(line) == ParseLabel(line, 1, 0)

\* the places of the numbered lines of the report
NumberedAt == {k \in 1..Len(result.lines) : IsNumbered(result.lines[k])}

\* the upper bound of the items shown
ShownBound == Min(RequestedCount, Len(BackendItems))

Recognized(item) ==
    /\ item.typename.p = "val"
    /\ item.typename.v \in {"FileMatch", "Repository", "CommitSearchResult"}

\* `line`, numbered j, is the first line of `item`
Identifies(line, j, item) ==
    LET rest == SubSeq(line, Len(Digits(j)) + 1, Len(line))
    IN  /\ Recognized(item)
        /\ Len(rest) > 0
        /\ item.typename.v = "FileMatch" =>
               /\ Head(rest) = ". "
               /\ (item.file.p = "val" /\ item.file.v.path.p = "val") =>
                      Tail(rest) = item.file.v.path.v
        /\ item.typename.v = "Repository" =>
               /\ Head(rest) = ". Repository: "
               /\ item.name.p = "val" => Tail(rest) = item.name.v
        /\ item.typename.v = "CommitSearchResult" =>
               /\ Head(rest) = ". Commit: "
               /\ (item.commit.p = "val" /\ item.commit.v.oid.p = "val") =>
                      Tail(rest) = SubSeq(item.commit.v.oid.v, 1,
                                          Min(8, Len(item.commit.v.oid.v)))

\* the lines of the item numbered j: from its numbered line to the line before
\* the blank line that closes it
BlockOf(j) ==
    LET start == CHOOSE k \in NumberedAt : LabelOf(result.lines[k]) = j
        stop == CHOOSE e \in (start + 1)..Len(result.lines) :
                    /\ result.lines[e] = <<>>
                    /\ \A m \in (start + 1)..(e - 1) : result.lines[m] # <<>>
    IN  SubSeq(result.lines, start, stop - 1)

\* result item j is shown as a `typename` item of the report
ShownAs(j, typename) ==
    /\ j \in 1..ShownBound
    /\ BackendItems[j].typename = Val(typename)

----------------------------------------------------------------------------
(* Claims about the report *)

\* C4: a report holds at most min(requested count, number of result items)
\* numbered items; their numbers rise and each is the place, counted from 1 in
\* backend order, of the item the line shows; when the first min(...) items all
\* are of a known variant, the numbers are exactly 1..min(...).
C4_ShownItemsBounded ==
    IsReport =>
        /\ Cardinality(NumberedAt) <= ShownBound
        /\ \A k \in NumberedAt :
               /\ LabelOf(result.lines[k]) \in 1..ShownBound
               /\ Identifies(result.lines[k], LabelOf(result.lines[k]),
                             BackendItems[LabelOf(result.lines[k])])
        /\ \A k1, k2 \in NumberedAt :
               k1 < k2 => LabelOf(result.lines[k1]) < LabelOf(result.lines[k2])
        /\ \A j \in 1..ShownBound :
               Recognized(BackendItems[j]) =>
                   \E k \in NumberedAt : LabelOf(result.lines[k]) = j

C4_Witness ==
    /\ IsReport
    /\ RequestedCount = 2
    /\ Len(BackendItems) = 3
    /\ BackendItems[1] # BackendItems[2]
    /\ \A j \in 1..3 : Recognized(BackendItems[j])
    /\ Cardinality(NumberedAt) = 2

\* C6: whenever the backend answers with a result set, the adapter's output is
\* the report, whichever nested fields of the result items are missing or null.
C6_FormatterNeverFails ==
    (pc = "done" /\ GotResultSet) => IsReport

\* C7: every shown item whose variant tag is none of FileMatch, Repository,
\* CommitSearchResult has an entry of the report: a line with its number that
\* reads "Unknown".
C7_UnknownRendered ==
    IsReport =>
        \A j \in 1..ShownBound :
            ~Recognized(BackendItems[j]) =>
                \E k \in NumberedAt :
                    /\ LabelOf(result.lines[k]) = j
                    /\ \/ Contains(result.lines[k], Unknown)
                       \/ Contains(result.lines[k], <<"Unknown">>)

\* the description line of a description
DescriptionLine(description) == <<"   ">> \o description

\* C8 as stated: for a Repository item of a report, a description of 100
\* characters or more gives no description line, and a description of any
\* length under 100 is the description line, verbatim.
C8_AnyShortDescriptionShown ==
    IsReport =>
        \A j \in 1..ShownBound :
            (ShownAs(j, "Repository") /\ BackendItems[j].description.p = "val") =>
                IF Len(BackendItems[j].description.v) >= 100
                THEN Len(BlockOf(j)) = 1
                ELSE /\ Len(BlockOf(j)) = 2
                     /\ BlockOf(j)[2] = DescriptionLine(BackendItems[j].description.v)

\* C8, amended: for a Repository item of a report, a description that is
\* missing, null, empty or of 100 characters or more gives no description line,
\* and a non-empty description of fewer than 100 characters is the description
\* line, verbatim.
C8_DescriptionShown ==
    IsReport =>
        \A j \in 1..ShownBound :
            ShownAs(j, "Repository") =>
                IF /\ BackendItems[j].description.p = "val"
                   /\ Len(BackendItems[j].description.v) > 0
                   /\ Len(BackendItems[j].description.v) < 100
                THEN /\ Len(BlockOf(j)) = 2
                     /\ BlockOf(j)[2] = DescriptionLine(BackendItems[j].description.v)
                ELSE Len(BlockOf(j)) = 1

C8_Witness ==
    /\ IsReport
    /\ \E j \in 1..ShownBound :
           /\ ShownAs(j, "Repository")
           /\ Len(BackendItems[j].description.v) = 99
           /\ Len(BlockOf(j)) = 2
           /\ Len(BlockOf(j)[2]) = 100

\* `line` is the preview line of `match`
IsPreviewOf(line, match) ==
    /\ Len(line) >= 3
    /\ Head(line) = "   Line "
    /\ match.lineNumber.p = "val" =>
           /\ SubSeq(line, 2, 1 + Len(Digits(match.lineNumber.v)))
                  = Digits(match.lineNumber.v)
           /\ line[2 + Len(Digits(match.lineNumber.v))] = ": "

\* C9: the block of a FileMatch item of a report is its two head lines, then
\* one preview line per line match for the first three line matches, in their
\* order, then, when there are N > 3 line matches, the one line
\* "... +<N-3> more matches"; with N <= 3 there are N preview lines and no
\* counter line.
C9_LineMatchPreviews ==
    IsReport =>
        \A j \in 1..ShownBound :
            (ShownAs(j, "FileMatch") /\ BackendItems[j].lineMatches.p = "val") =>
                LET matches == BackendItems[j].lineMatches.v
                    block == BlockOf(j)
                IN  IF Len(matches) > 3
                    THEN /\ Len(block) = 2 + 3 + 1
                         /\ \A k \in 1..3 : IsPreviewOf(block[2 + k], matches[k])
                         /\ block[6] = <<"   ... +">> \o Digits(Len(matches) - 3)
                                           \o <<" more matches">>
                    ELSE /\ Len(block) = 2 + Len(matches)
                         /\ \A k \in 1..Len(matches) :
                                IsPreviewOf(block[2 + k], matches[k])

C9_Witness ==
    /\ IsReport
    /\ \E j \in 1..ShownBound :
           /\ ShownAs(j, "FileMatch")
           /\ Len(BackendItems[j].lineMatches.v) = 4
           /\ Len(BlockOf(j)) = 6
           /\ BlockOf(j)[6] = <<"   ... +", "1", " more matches">>

\* the fragment of a list of repositories
ReposFragment(list, words) ==
    IF list.p = "val" /\ Len(list.v) > 0
    THEN << Digits(Len(list.v)) \o <<words>> >>
    ELSE <<>>

\* the status fragments the answer calls for, in the fixed order
ExpectedFragments ==
    (IF /\ BackendResults.alert.p = "val"
        /\ BackendResults.alert.v.title.p = "val"
        /\ BackendResults.alert.v.title.v # <<>>
     THEN << <<"Alert: ">> \o BackendResults.alert.v.title.v >>
     ELSE <<>>)
    \o ReposFragment(BackendResults.timedout, " repos timed out")
    \o ReposFragment(BackendResults.cloning, " repos cloning")
    \o ReposFragment(BackendResults.missing, " repos missing")

\* the places of the status lines of the report
StatusAt ==
    {k \in 1..Len(result.lines) :
        result.lines[k] # <<>> /\ Head(result.lines[k]) = "Status: "}

\* C10: a report, of an empty result list or not, ends with the one line
\* "Status: " and the fragments its answer calls for, joined by " | ", and has
\* no status line when there is no fragment; the report of an empty result list
\* is "No results found." and that status line, if any.
C10_StatusLine ==
    IsReport =>
        /\ IF ExpectedFragments = <<>>
           THEN StatusAt = {}
           ELSE /\ StatusAt = {Len(result.lines)}
                /\ result.lines[Len(result.lines)]
                       = <<"Status: ">> \o JoinBar(ExpectedFragments)
        /\ BackendItems = <<>> =>
               SubSeq(result.lines, 1, Len(result.lines) - Cardinality(StatusAt))
                   = << <<"No results found.">> >>

C10_Witness ==
    /\ IsReport
    /\ BackendItems = <<>>
    /\ Len(BackendResults.timedout.v) = 2
    /\ Len(BackendResults.cloning.v) = 1
    /\ result.lines =
           << <<"No results found.">>,
              <<"Status: ", "Alert: ", "Too many files", " | ",
                "2", " repos timed out", " | ", "1", " repos cloning">> >>

====
